---- MODULE Spec2Model ----
(***************************************************************************)
(* Model of the trajectory reconstruction pipeline of pytsa:               *)
(*   src/pytsa/tsea/search_agent.py   (SearchAgent, current layout)        *)
(*   src/src/pytsa/search_agent.py    (SearchAgent, earlier layout)        *)
(*   src/pytsa/trajectories/rules.py  (Recipe and the rule functions)      *)
(*                                                                         *)
(* Units.  Timestamps are seconds.  Positions are minutes of arc; all     *)
(* reports of the assembly inputs lie on one meridian (lon = 0), where the *)
(* great-circle distance of two reports in nautical miles is the arc       *)
(* |lat1 - lat0| in minutes.                                               *)
(***************************************************************************)
EXTENDS Integers, Sequences, FiniteSets, TLC

\* ------------------------------------------------------------------ bounds
\* Largest number of reports the loader holds.
MaxReports == 4
\* Largest number of tracks of a vessel handed to the corrector.
MaxTracks == 2

\* ------------------------------------------------------- program constants
\* get_raw_ships(max_tgap=180), in seconds.
max_tgap == 180
\* get_raw_ships(max_dgap=10), in nautical miles.
max_dgap == 10
\* SearchAgent.time_delta, in minutes.
time_delta == 30
\* SearchAgent.max_tgt_ships
max_tgt_ships == 200

\* ------------------------------------------------------------ value domains
MMSIs == {1, 2}
\* Timestamps reach twice the maximum time gap, so that an elapsed time
\* below, at and above the threshold all occur.
Times == {0, max_tgap, 2 * max_tgap}
\* Latitudes at distance 0, max_dgap and 2*max_dgap of each other.
Lats == {0, max_dgap, 2 * max_dgap}
\* np.inf
Inf == 1000 * 1000

None == "None"

\* AISMessage(sender, timestamp, lat, lon, COG, SOG)
AISMessage(sender, timestamp, lat, lon, COG, SOG) ==
    [sender |-> sender, timestamp |-> timestamp, lat |-> lat, lon |-> lon,
     COG |-> COG, SOG |-> SOG]

\* The reports a loader can hold: vessel 1 anywhere on the meridian's grid
\* ends, vessel 2 at latitude 0.
PoolReports ==
    { AISMessage(1, t, la, 0, 0, 10) : t \in Times, la \in {0, 2 * max_dgap} }
    \cup { AISMessage(2, t, 0, 0, 0, 10) : t \in Times }

\* ------------------------------------------------------------------ helpers
Abs(x) == IF x < 0 THEN -x ELSE x

Range(s) == { s[i] : i \in DOMAIN s }

RemoveAt(s, i) == SubSeq(s, 1, i - 1) \o SubSeq(s, i + 1, Len(s))

Last(s) == s[Len(s)]

SeqsUpTo(S, n) == UNION { [1 .. k -> S] : k \in 0 .. n }

RECURSIVE Flatten(_)
Flatten(ss) == IF ss = << >> THEN << >> ELSE Head(ss) \o Flatten(Tail(ss))

MinTime(s) == CHOOSE t \in { s[i].timestamp : i \in DOMAIN s } :
                 \A i \in DOMAIN s : t <= s[i].timestamp

\* DataFrame.sort_values(by=timestamp): the default sort is not stable, so
\* rows with equal timestamps come out in any order.
RECURSIVE sort_values(_)
sort_values(df) ==
    IF df = << >> THEN { << >> }
    ELSE UNION { { << df[i] >> \o r : r \in sort_values(RemoveAt(df, i)) } :
                 i \in { j \in DOMAIN df : df[j].timestamp = MinTime(df) } }

\* list.sort(key=timestamp): stable.
RECURSIVE list_sort(_)
list_sort(l) ==
    IF l = << >> THEN << >>
    ELSE LET i == CHOOSE j \in DOMAIN l :
                    /\ l[j].timestamp = MinTime(l)
                    /\ \A k \in 1 .. (j - 1) : l[k].timestamp # MinTime(l)
         IN  << l[i] >> \o list_sort(RemoveAt(l, i))

\* list.remove(x): drops the first element equal to x.
list_remove(l, x) ==
    IF \E j \in DOMAIN l : l[j] = x
    THEN RemoveAt(l, CHOOSE j \in DOMAIN l :
                        l[j] = x /\ \A k \in 1 .. (j - 1) : l[k] # x)
    ELSE l

\* ------------------------------------------------------ segmentation predicate
\* haversine(lon1, lat1, lon2, lat2): the arc between the two points, exact
\* for two points of one meridian (the inputs of the model: lon1 = lon2).
haversine(lon1, lat1, lon2, lat2) == Abs(lat2 - lat1) + Abs(lon2 - lon1)

\* (msg_t1.timestamp - msg_t0.timestamp).total_seconds()
total_seconds(msg_t0, msg_t1) == msg_t1.timestamp - msg_t0.timestamp

GapTooLargeGE(tgap, dgap, msg_t0, msg_t1) ==
    \/ total_seconds(msg_t0, msg_t1) >= tgap
    \/ haversine(msg_t0.lon, msg_t0.lat, msg_t1.lon, msg_t1.lat) >= dgap

\* SearchAgent._gap_too_large
GapTooLarge(tgap, dgap, msg_t0, msg_t1) ==
    \/ total_seconds(msg_t0, msg_t1) > tgap
    \/ haversine(msg_t0.lon, msg_t0.lat, msg_t1.lon, msg_t1.lat) > dgap

\* split.is_split_point: the predicate of _gap_too_large with the module's
\* thresholds.
is_split_point(msg_t0, msg_t1) == GapTooLarge(max_tgap, max_dgap, msg_t0, msg_t1)

\* ------------------------------------------------------------------- state
VARIABLES
    dynamic_data,   \* loader.dynamic_data: the reports the loader holds
    is_bufferd,     \* SearchAgent._is_bufferd
    query,          \* the query that runs: "get_ships" or "get_all_ships"
    pc,             \* position of the running query
    tpos,           \* the query anchor of get_ships
    neighbors,      \* result of _get_neighbors
    singles,        \* chunk-local vessels of _mp_construct_target_vessels
    targets,        \* the Targets dictionary under construction
    assembled,      \* the tracks as the walk built them, before the
                    \* minimum-length pass (_itracks in _determine_split_points)
    result,         \* what the query returned
    err,            \* the exception the query raised, or None
    n_speed_correction,     \* SearchAgent._n_speed_correction
    n_position_correction,  \* SearchAgent._n_position_correction
    corr_passes,    \* how often _corrections ran on the targets of the query
    split_args,     \* the arguments of a call of _gap_too_large
    split_ret,      \* what that call returned: << >> before it returns
    funcs,          \* Recipe.funcs: the rules of the recipe
    rule_track,     \* the track a rule or the cooked recipe is applied to
    cooked_ret,     \* what Recipe.cooked returned
    rule_ret,       \* a rule applied on its own, and what it returned
    interpolated,   \* per vessel handed to _interpolate_trajectories: whether
                    \* tgt.interpolate attached a model ("ok") or raised
    call_args,      \* the arguments of a call modelled on its own
    call_ret        \* what that call returned or raised: << >> before

pipeVars == << dynamic_data, is_bufferd, query, pc, tpos, neighbors, singles, targets,
               assembled, result, err, n_speed_correction,
               n_position_correction, corr_passes >>

auxVars == << split_args, split_ret, funcs, rule_track, cooked_ret, rule_ret >>

callVars == << call_args, call_ret >>

\* TargetShip(ts, mmsi, ship_type, length, tracks)
TargetShip(mmsi, tracks) == [mmsi |-> mmsi, tracks |-> tracks]

EmptyTargets == [m \in {} |-> TargetShip(m, << >>)]

\* ------------------------------------------------------- neighbour query
\* SearchAgent._time_filter: delta is in minutes.
time_filter(df, date, delta) ==
    LET dt == delta * 60
    IN  SelectSeq(df, LAMBDA r : r.timestamp > date - dt /\ r.timestamp < date + dt)

\* Squared Euclidean distance of the k-d tree over (lat, lon).
SqDist(r, p) == (r.lat - p.lat) * (r.lat - p.lat) + (r.lon - p.lon) * (r.lon - p.lon)

\* cKDTree.query(x, k, distance_upper_bound): the sets of at most k rows
\* nearest to x among the rows closer than the bound.
KdQuery(df, p, k, sr) ==
    LET near == { i \in DOMAIN df : sr = Inf \/ SqDist(df[i], p) < sr * sr }
        n    == IF Cardinality(near) < k THEN Cardinality(near) ELSE k
    IN  { S \in SUBSET near :
            /\ Cardinality(S) = n
            /\ \A i \in S, j \in near \ S : SqDist(df[i], p) <= SqDist(df[j], p) }

\* filtered.iloc[res] for an index set: the rows in frame order (the
\* assembler sorts them by time, so the order of res is immaterial).
ILoc(df, S) ==
    LET RECURSIVE pick(_)
        pick(i) == IF i > Len(df) THEN << >>
                   ELSE IF i \in S THEN << df[i] >> \o pick(i + 1)
                   ELSE pick(i + 1)
    IN  pick(1)

\* SearchAgent._get_neighbors: the possible results.
get_neighbors(data, tp, search_radius) ==
    LET filtered == time_filter(data, tp.timestamp, time_delta)
        \* search_radius / 60 degrees, in minutes of arc
        sr == IF search_radius = Inf THEN Inf ELSE (search_radius * 60) \div 60
    IN  IF filtered = << >> THEN { filtered }
        ELSE { ILoc(filtered, S) : S \in KdQuery(filtered, tp, max_tgt_ships, sr) }

\* ------------------------------------------------- single-process assembly
\* The loop of _sp_construct_target_vessels over the time-sorted rows.
RECURSIVE sp_walk(_, _)
sp_walk(rows, tgts) ==
    IF rows = << >> THEN tgts
    ELSE LET msg == Head(rows)
             m   == msg.sender
         IN  sp_walk(Tail(rows),
                IF m \notin DOMAIN tgts
                THEN tgts @@ (m :> TargetShip(m, << << msg >> >>))
                ELSE LET tracks == tgts[m].tracks
                     IN  [tgts EXCEPT ![m].tracks =
                            IF is_split_point(Last(Last(tracks)), msg)
                            THEN Append(tracks, << msg >>)
                            ELSE [tracks EXCEPT ![Len(tracks)] = Append(@, msg)]])

remove_single_obs_GT(tgts) ==
    [m \in DOMAIN tgts |->
        [tgts[m] EXCEPT !.tracks = SelectSeq(@, LAMBDA track : Len(track) > 2)]]

\* SearchAgent._remove_single_obs
remove_single_obs(tgts) ==
    [m \in DOMAIN tgts |->
        [tgts[m] EXCEPT !.tracks = SelectSeq(@, LAMBDA track : Len(track) >= 2)]]

\* An overlap test that admits the anchor at the ends of the track.
overlaps_search_date_LE(track, tp) ==
    track[1].timestamp <= tp.timestamp /\ tp.timestamp <= Last(track).timestamp

\* SearchAgent._overlaps_search_date
overlaps_search_date(track, tp) ==
    track[1].timestamp < tp.timestamp /\ tp.timestamp < Last(track).timestamp

\* SearchAgent._filter_overlapping
filter_overlapping(tgts, tp) ==
    [m \in DOMAIN tgts |->
        [tgts[m] EXCEPT !.tracks =
            SelectSeq(@, LAMBDA track : overlaps_search_date(track, tp))]]

\* TargetShip.interpolate of every vessel: fitting a model to a track may
\* fail; a vessel without tracks has nothing to fit.  `failing` is the set
\* of vessels whose fit raises InterpolationError.
MayFail(tgts) == { m \in DOMAIN tgts : tgts[m].tracks # << >> }

\* A loop that gives up on every vessel once one fit has failed.
interpolate_trajectories_abort(tgts, failing) ==
    IF failing = {} THEN tgts ELSE [m \in {} |-> tgts[m]]

\* SearchAgent._interpolate_trajectories
interpolate_trajectories(tgts, failing) ==
    [m \in DOMAIN tgts \ failing |-> tgts[m]]

\* ------------------------------------------------------- chunked assembly
\* SearchAgent._distribute: one frame per vessel id, in order of first
\* appearance.
RECURSIVE unique(_)
unique(ms) ==
    IF ms = << >> THEN << >>
    ELSE << Head(ms) >> \o unique(SelectSeq(Tail(ms), LAMBDA x : x # Head(ms)))

distribute(df) ==
    LET mmsis == unique([i \in DOMAIN df |-> df[i].sender])
    IN  [k \in DOMAIN mmsis |-> SelectSeq(df, LAMBDA r : r.sender = mmsis[k])]

\* The loop of _impl_construct_target_vessel over the time-sorted rows of
\* one vessel: a row with the timestamp of the last kept one is skipped.
RECURSIVE impl_walk(_, _)
impl_walk(rows, track) ==
    IF rows = << >> THEN track
    ELSE impl_walk(Tail(rows),
            IF track # << >> /\ Head(rows).timestamp = Last(track).timestamp
            THEN track
            ELSE Append(track, Head(rows)))

\* SearchAgent._impl_construct_target_vessel: the possible results.
impl_construct_target_vessel(dyn) ==
    { TargetShip(dyn[1].sender, << impl_walk(srt, << >>) >>) : srt \in sort_values(dyn) }

\* pool.starmap over the frames of one chunk: one result per frame, in
\* frame order.
RECURSIVE starmap(_)
starmap(frames) ==
    IF frames = << >> THEN { << >> }
    ELSE { << tv >> \o rest : tv \in impl_construct_target_vessel(Head(frames)),
                              rest \in starmap(Tail(frames)) }

\* The loop of _mp_construct_target_vessels over loader.iterate_chunks().
RECURSIVE construct_singles(_)
construct_singles(chunks) ==
    IF chunks = << >> THEN { << >> }
    ELSE { res \o rest : res \in starmap(distribute(Head(chunks))),
                         rest \in construct_singles(Tail(chunks)) }

\* A join that concatenates without looking at the timestamps at the seam.
RECURSIVE join_tracks_keep(_, _)
join_tracks_keep(sgl, tgts) ==
    IF sgl = << >> THEN tgts
    ELSE LET tgt  == Head(sgl)
             mmsi == tgt.mmsi
         IN  join_tracks_keep(Tail(sgl),
                IF mmsi \notin DOMAIN tgts THEN tgts @@ (mmsi :> tgt)
                ELSE [tgts EXCEPT ![mmsi].tracks[1] = @ \o tgt.tracks[1]])

\* SearchAgent._join_tracks
RECURSIVE join_tracks(_, _)
join_tracks(sgl, tgts) ==
    IF sgl = << >> THEN tgts
    ELSE LET tgt  == Head(sgl)
             mmsi == tgt.mmsi
         IN  join_tracks(Tail(sgl),
                IF mmsi \notin DOMAIN tgts THEN tgts @@ (mmsi :> tgt)
                ELSE LET joined == tgts[mmsi].tracks[1]
                         local  == tgt.tracks[1]
                         rest   == IF Last(joined).timestamp = local[1].timestamp
                                   THEN Tail(local) ELSE local
                     IN  [tgts EXCEPT ![mmsi].tracks[1] = joined \o rest])

\* track[a:b] of Python, a and b counted from 0.
Slice(track, a, b) ==
    LET hi == IF b > Len(track) THEN Len(track) ELSE b
    IN  IF a >= hi THEN << >> ELSE SubSeq(track, a + 1, hi)

\* The loop `for i, (msg_t0, msg_t1) in enumerate(pairwise(track))` of
\* _determine_split_points.  The iterator reads the list by position while
\* the body removes from it: `k` elements have been read, msg_t0 is the one
\* read last, i = k - 1.  The value is _itracks when the loop ends.
RECURSIVE split_loop(_, _, _, _, _)
split_loop(track, k, msg_t0, itracks, tstartidx) ==
    IF k + 1 > Len(track) THEN itracks
    ELSE LET msg_t1 == track[k + 1]
             i      == k - 1
         IN  IF msg_t0.timestamp = msg_t1.timestamp
             THEN split_loop(list_remove(track, msg_t1), k + 1, msg_t1,
                             itracks, tstartidx)
             ELSE IF is_split_point(msg_t0, msg_t1)
             THEN split_loop(track, k + 1, msg_t1,
                             Append(itracks, Slice(track, tstartidx, i + 1)), i + 1)
             ELSE split_loop(track, k + 1, msg_t1, itracks, tstartidx)

\* _itracks of one track of _determine_split_points.
intermediary_tracks(track) ==
    LET srt == list_sort(track)
    IN  IF srt = << >> THEN << >> ELSE split_loop(srt, 1, srt[1], << >>, 0)

\* _itracks of every vessel (the last track of a vessel decides).
all_itracks(tgts) ==
    [m \in DOMAIN tgts |-> intermediary_tracks(Last(tgts[m].tracks))]

keep_long_GE(itracks) == SelectSeq(itracks, LAMBDA track : Len(track) > 2)

\* `[track for track in _itracks if len(track) > 1]`
keep_long(itracks) == SelectSeq(itracks, LAMBDA track : Len(track) > 1)

\* SearchAgent._determine_split_points
determine_split_points(tgts) ==
    LET kept == [m \in DOMAIN tgts |-> keep_long(all_itracks(tgts)[m])]
    IN  [m \in { x \in DOMAIN tgts : kept[x] # << >> } |->
            [tgts[m] EXCEPT !.tracks = kept[m]]]

\* --------------------------------------------------------------- the agent
\* Largest number of chunks loader.iterate_chunks() yields.
MaxChunks == 2

\* search_radius of get_ships, in nautical miles: unbounded, or the
\* default of 20.
SearchRadii == { Inf, 2 * max_dgap }

\* The ways loader.iterate_chunks() cuts the data into consecutive chunks.
RECURSIVE Chunkings(_, _)
Chunkings(df, n) ==
    IF df = << >> THEN { << >> }
    ELSE IF n = 1 THEN { << df >> }
    ELSE { << df >> } \cup
         UNION { { << SubSeq(df, 1, c) >> \o rest :
                   rest \in Chunkings(SubSeq(df, c + 1, Len(df)), n - 1) } :
                 c \in 1 .. (Len(df) - 1) }

\* The variables of the calls modelled on their own, at rest.
AuxIdle ==
    /\ split_args = None
    /\ split_ret = << >>
    /\ funcs = << >>
    /\ rule_track = << >>
    /\ cooked_ret = << >>
    /\ rule_ret = << >>

\* No call modelled on its own is made, and no model has been fitted.
CallIdle ==
    /\ call_args = None
    /\ call_ret = << >>
    /\ interpolated = << >>

\* The anchor slot before a query has set it.
NoTimePosition == [timestamp |-> 0, lat |-> 0, lon |-> 0]

Init ==
    /\ dynamic_data \in SeqsUpTo(PoolReports, MaxReports)
    /\ is_bufferd = FALSE
    /\ query = None
    /\ pc = "idle"
    /\ tpos = NoTimePosition
    /\ neighbors = << >>
    /\ singles = << >>
    /\ targets = EmptyTargets
    /\ assembled = EmptyTargets
    /\ result = None
    /\ err = None
    /\ n_speed_correction = 0
    /\ n_position_correction = 0
    /\ corr_passes = 0
    /\ AuxIdle
    /\ CallIdle

\* get_ships up to and including _get_neighbors.  _time_filter reads the
\* first row of the frame, which raises IndexError on an empty frame.
GetShips ==
    /\ pc = "idle"
    /\ query' = "get_ships"
    /\ is_bufferd' = TRUE
    /\ \E t \in Times, search_radius \in SearchRadii :
         /\ tpos' = [timestamp |-> t, lat |-> 0, lon |-> 0]
         /\ IF dynamic_data = << >>
            THEN /\ err' = "IndexError"
                 /\ pc' = "done"
                 /\ UNCHANGED neighbors
            ELSE /\ neighbors' \in get_neighbors(dynamic_data, tpos', search_radius)
                 /\ pc' = "sp_walk"
                 /\ UNCHANGED err
    /\ UNCHANGED << dynamic_data, singles, targets, assembled, result,
                    n_speed_correction, n_position_correction, corr_passes, auxVars, callVars, interpolated >>

\* _sp_construct_target_vessels: the sort and the walk over the rows.
SpWalk ==
    /\ pc = "sp_walk"
    /\ \E rows \in sort_values(neighbors) :
         targets' = sp_walk(rows, EmptyTargets)
    /\ assembled' = [m \in DOMAIN targets' |-> targets'[m].tracks]
    /\ pc' = "rm_single"
    /\ UNCHANGED << query, dynamic_data, is_bufferd, tpos, neighbors, singles, result,
                    err, n_speed_correction, n_position_correction, corr_passes, auxVars, callVars, interpolated >>

\* _sp_construct_target_vessels: self._remove_single_obs(targets)
RemoveSingleObs ==
    /\ pc = "rm_single"
    /\ targets' = remove_single_obs(targets)
    /\ pc' = "overlap"
    /\ UNCHANGED << query, dynamic_data, is_bufferd, tpos, neighbors, singles,
                    assembled, result, err, n_speed_correction,
                    n_position_correction, corr_passes, auxVars, callVars, interpolated >>

\* _sp_construct_target_vessels: get_ships passes overlap = True.
FilterOverlapping ==
    /\ pc = "overlap"
    /\ targets' = filter_overlapping(targets, tpos)
    /\ pc' = "interpolate"
    /\ UNCHANGED << query, dynamic_data, is_bufferd, tpos, neighbors, singles,
                    assembled, result, err, n_speed_correction,
                    n_position_correction, corr_passes, auxVars, callVars, interpolated >>

\* get_ships: _interpolate_trajectories and the return.
InterpolateTrajectories ==
    /\ pc = "interpolate"
    /\ \E failing \in SUBSET MayFail(targets) :
         /\ interpolated' = [m \in DOMAIN targets |->
                                 IF m \in failing THEN "InterpolationError" ELSE "ok"]
         /\ targets' = interpolate_trajectories(targets, failing)
         /\ result' = targets'
    /\ pc' = "done"
    /\ UNCHANGED << query, dynamic_data, is_bufferd, tpos, neighbors, singles,
                    assembled, err, n_speed_correction,
                    n_position_correction, corr_passes, auxVars, callVars >>

\* get_all_ships: the chunk loop of _mp_construct_target_vessels.
GetAllShips ==
    /\ pc = "idle"
    /\ query' = "get_all_ships"
    /\ \E chunks \in Chunkings(dynamic_data, MaxChunks) :
         singles' \in construct_singles(chunks)
    /\ pc' = "join"
    /\ UNCHANGED << dynamic_data, is_bufferd, tpos, neighbors, targets,
                    assembled, result, err, n_speed_correction,
                    n_position_correction, corr_passes, auxVars, callVars, interpolated >>

\* _mp_construct_target_vessels: targets = self._join_tracks(*singles)
JoinTracks ==
    /\ pc = "join"
    /\ targets' = join_tracks(singles, EmptyTargets)
    /\ pc' = "split"
    /\ UNCHANGED << query, dynamic_data, is_bufferd, tpos, neighbors, singles,
                    assembled, result, err, n_speed_correction,
                    n_position_correction, corr_passes, auxVars, callVars, interpolated >>

\* _mp_construct_target_vessels with skip_tsplit = False:
\* _determine_split_points and the return.
DetermineSplitPoints ==
    /\ pc = "split"
    /\ assembled' = all_itracks(targets)
    /\ targets' = determine_split_points(targets)
    /\ result' = targets'
    /\ pc' = "done"
    /\ UNCHANGED << query, dynamic_data, is_bufferd, tpos, neighbors, singles, err,
                    n_speed_correction, n_position_correction, corr_passes, auxVars, callVars, interpolated >>

\* _mp_construct_target_vessels with skip_tsplit = True: the class has no
\* _sort_by_timestamp.
SortByTimestamp ==
    /\ pc = "split"
    /\ err' = "AttributeError"
    /\ pc' = "done"
    /\ UNCHANGED << query, dynamic_data, is_bufferd, tpos, neighbors, singles, targets,
                    assembled, result, n_speed_correction,
                    n_position_correction, corr_passes, auxVars, callVars, interpolated >>

Next ==
    \/ GetShips
    \/ SpWalk
    \/ RemoveSingleObs
    \/ FilterOverlapping
    \/ InterpolateTrajectories
    \/ GetAllShips
    \/ JoinTracks
    \/ DetermineSplitPoints
    \/ SortByTimestamp

vars == << pipeVars, auxVars, callVars, interpolated >>

Spec == Init /\ [][Next]_vars

\* ================================================================== claims
\* The query is the neighbour query get_ships.
SpPath == query = "get_ships"

\* The walk has built the tracks of the running query.
Assembled ==
    \/ pc \in {"rm_single", "overlap", "interpolate"}
    \/ pc = "done" /\ err = None

\* The reports of vessel m handed to the track assembler.
InputOf(m) ==
    LET src == IF SpPath THEN neighbors ELSE dynamic_data
    IN  { r \in Range(src) : r.sender = m }

\* The reports of vessel m held in the tracks the walk built.
AssembledOf(m) ==
    IF m \in DOMAIN assembled THEN Range(Flatten(assembled[m])) ELSE {}

TimesOf(S) == { r.timestamp : r \in S }

\* Tracks of vessel m in a Targets dictionary; none when it has no entry.
TracksOf(tgts, m) == IF m \in DOMAIN tgts THEN tgts[m].tracks ELSE << >>

\* C1: after track assembly the reports held in a vessel's tracks are the
\* vessel's input reports minus the ones dropped for a duplicate
\* timestamp: every report in a track is an input report, and every
\* timestamp of the input is still there.
C1_NoReportLost ==
    Assembled =>
        \A m \in MMSIs :
            /\ AssembledOf(m) \subseteq InputOf(m)
            /\ TimesOf(AssembledOf(m)) = TimesOf(InputOf(m))

\* C2: in every track the assembler built, the timestamps of consecutive
\* reports are strictly increasing.
C2_StrictlyIncreasing ==
    Assembled =>
        \A m \in DOMAIN assembled :
            \A k \in DOMAIN assembled[m] :
                LET track == assembled[m][k]
                IN  \A i \in 1 .. (Len(track) - 1) :
                        track[i].timestamp < track[i + 1].timestamp

\* Index of the track that holds the i-th report of the flattened tracks.
RECURSIVE TrackIndex(_, _)
TrackIndex(tracks, i) ==
    IF i <= Len(Head(tracks)) THEN 1
    ELSE 1 + TrackIndex(Tail(tracks), i - Len(Head(tracks)))

\* C4: track boundaries are exactly the split points: two time-adjacent
\* retained reports of a vessel lie in different tracks iff is_split_point
\* holds of them.
C4_BoundariesAreSplitPoints ==
    Assembled =>
        \A m \in DOMAIN assembled :
            LET tracks == assembled[m]
                flat   == Flatten(tracks)
            IN  \A i \in 1 .. (Len(flat) - 1) :
                    (TrackIndex(tracks, i) # TrackIndex(tracks, i + 1))
                        <=> is_split_point(flat[i], flat[i + 1])

\* C7: no vessel of a returned result has an empty track list.
C7_NoEmptyVessel ==
    (pc = "done" /\ err = None) =>
        \A m \in DOMAIN result : result[m].tracks # << >>

AtLeastTwo(tracks) == SelectSeq(tracks, LAMBDA track : Len(track) >= 2)

\* C8: after the minimum-length pass every track of a vessel has at least
\* 2 reports, and the pass keeps exactly the tracks the walk built with 2
\* or more reports (get_ships: _remove_single_obs; get_all_ships: the
\* filter that ends _determine_split_points).
C8_MinimumLength ==
    /\ (pc \in {"overlap", "interpolate"} \/ (pc = "done" /\ err = None)) =>
          \A m \in DOMAIN targets :
              \A k \in DOMAIN targets[m].tracks : Len(targets[m].tracks[k]) >= 2
    /\ pc = "overlap" =>
          \A m \in DOMAIN assembled :
              TracksOf(targets, m) = AtLeastTwo(assembled[m])
    /\ (pc = "done" /\ err = None /\ ~SpPath) =>
          \A m \in DOMAIN assembled :
              TracksOf(result, m) = AtLeastTwo(assembled[m])

\* C8 witness: the pass has run on a vessel with a track of one report,
\* which it removed, and a track of two, which it kept.
C8_Witness ==
    /\ pc = "overlap"
    /\ \E m \in DOMAIN assembled :
         /\ \E k \in DOMAIN assembled[m] : Len(assembled[m][k]) = 1
         /\ \E k \in DOMAIN assembled[m] : Len(assembled[m][k]) = 2
         /\ Len(targets[m].tracks) = 1

\* C9: in get_ships every consecutive pair of reports of the assembled
\* tracks has gone through the kinematic corrector exactly once by the
\* time the interpolator runs.
C9_CorrectedOnce ==
    ( /\ SpPath
      /\ pc \in {"interpolate", "done"}
      /\ err = None
      /\ \E m \in DOMAIN assembled :
            \E k \in DOMAIN assembled[m] : Len(assembled[m][k]) >= 2 )
    => corr_passes = 1

\* ====================================== the segmentation predicate by itself
\* Thresholds a caller passes to _gap_too_large.
TGaps == { max_tgap, 2 * max_tgap }
DGaps == { max_dgap, 2 * max_dgap }

\* Two time-adjacent reports of one vessel (msg_t0 not after msg_t1).
SplitPairs ==
    { p \in [msg_t0 : { AISMessage(1, t, la, 0, 0, 10) : t \in Times, la \in Lats },
             msg_t1 : { AISMessage(1, t, la, 0, 0, 10) : t \in Times, la \in Lats }] :
        p.msg_t0.timestamp <= p.msg_t1.timestamp }

\* The agent at rest: no query runs.
PipeIdle ==
    /\ dynamic_data = << >>
    /\ is_bufferd = FALSE
    /\ query = None
    /\ pc = "idle"
    /\ tpos = NoTimePosition
    /\ neighbors = << >>
    /\ singles = << >>
    /\ targets = EmptyTargets
    /\ assembled = EmptyTargets
    /\ result = None
    /\ err = None
    /\ n_speed_correction = 0
    /\ n_position_correction = 0
    /\ corr_passes = 0

InitSplit ==
    /\ PipeIdle
    /\ \E p \in SplitPairs, tgap \in TGaps, dgap \in DGaps :
         split_args = [tgap |-> tgap, dgap |-> dgap,
                       msg_t0 |-> p.msg_t0, msg_t1 |-> p.msg_t1]
    /\ split_ret = << >>
    /\ funcs = << >>
    /\ rule_track = << >>
    /\ cooked_ret = << >>
    /\ rule_ret = << >>
    /\ CallIdle

\* A call of SearchAgent._gap_too_large.
GapTooLargeCall ==
    /\ split_ret = << >>
    /\ split_ret' = << GapTooLarge(split_args.tgap, split_args.dgap,
                                   split_args.msg_t0, split_args.msg_t1) >>
    /\ UNCHANGED << pipeVars, split_args, funcs, rule_track, cooked_ret, rule_ret,
                 callVars, interpolated >>

NextSplit == GapTooLargeCall

SpecSplit == InitSplit /\ [][NextSplit]_vars

MaxRules == 2
\* Largest number of reports of a track handed to a rule.
MaxTrackLen == 3

\* A rule function with its argument fixed: partial(rules.too_few_obs, n=..)
\* or partial(rules.too_small_span, span=..).
partial(rule, arg) == [rule |-> rule, arg |-> arg]

Rules ==
    { partial("too_few_obs", n) : n \in {2, 3} }
    \cup { partial("too_small_span", span) : span \in {0, max_dgap} }

\* Positions of the reports a rule is given.
RulePoints == { AISMessage(1, 0, la, lo, 0, 10) : la \in Lats, lo \in {0, max_dgap} }

RuleTracks == SeqsUpTo(RulePoints, MaxTrackLen) \ { << >> }

Recipes == SeqsUpTo(Rules, MaxRules) \ { << >> }

\* np.ptp: largest minus smallest value.
ptp(xs) ==
    LET S == Range(xs)
    IN  (CHOOSE x \in S : \A y \in S : y <= x) - (CHOOSE x \in S : \A y \in S : x <= y)

\* rules.too_few_obs
too_few_obs(track, n) == Len(track) < n

\* rules.too_small_span
too_small_span(track, span) ==
    LET lat_span == ptp([i \in DOMAIN track |-> track[i].lat])
        lon_span == ptp([i \in DOMAIN track |-> track[i].lon])
    IN  lat_span > span /\ lon_span > span

\* func(track) for a rule of the recipe.
call(func, track) ==
    IF func.rule = "too_few_obs" THEN too_few_obs(track, func.arg)
    ELSE too_small_span(track, func.arg)

\* Recipe.cooked: all(func(track) for func in self.funcs)
cooked(fs, track) == \A i \in DOMAIN fs : call(fs[i], track)

\* Recipe(*funcs) and a track to judge.
InitRules ==
    /\ PipeIdle
    /\ split_args = None
    /\ split_ret = << >>
    /\ funcs \in Recipes
    /\ rule_track \in RuleTracks
    /\ cooked_ret = << >>
    /\ rule_ret = << >>
    /\ CallIdle

\* recipe.cook()(track)
Cooked ==
    /\ cooked_ret = << >>
    /\ cooked_ret' = << cooked(funcs, rule_track) >>
    /\ UNCHANGED << pipeVars, split_args, split_ret, funcs, rule_track, rule_ret,
                 callVars, interpolated >>

\* Every rule of the recipe called on the track by itself.
RuleCalls ==
    /\ rule_ret = << >>
    /\ rule_ret' = [i \in DOMAIN funcs |-> call(funcs[i], rule_track)]
    /\ UNCHANGED << pipeVars, split_args, split_ret, funcs, rule_track, cooked_ret,
                 callVars, interpolated >>

NextRules ==
    \/ Cooked
    \/ RuleCalls

SpecRules == InitRules /\ [][NextRules]_vars

\* C5: the cooked recipe rejects a track iff at least one of its rules
\* returns true for the track.
C5_RejectsIffAnyRule ==
    (cooked_ret # << >> /\ rule_ret # << >>) =>
        (cooked_ret[1] = TRUE <=> \E i \in DOMAIN rule_ret : rule_ret[i] = TRUE)

\* Largest difference of two values of S.
SpanOf(S) == CHOOSE d \in { x - y : x \in S, y \in S } :
                \A x \in S, y \in S : x - y <= d

\* C6: too_small_span(track, span) returns true iff the latitude range or
\* the longitude range of the track is at most span.
C6_TooSmallSpan ==
    rule_ret # << >> =>
        \A i \in DOMAIN funcs :
            funcs[i].rule = "too_small_span" =>
                ( rule_ret[i] = TRUE
                  <=> \/ SpanOf({ rule_track[j].lat : j \in DOMAIN rule_track }) <= funcs[i].arg
                      \/ SpanOf({ rule_track[j].lon : j \in DOMAIN rule_track }) <= funcs[i].arg )

\* =========================================== the kinematic corrector by itself
\* Speeds over ground a report may carry.
SOGs == {0, 10}

\* Reports of the k-th track of a vessel: max_tgap seconds apart, after
\* the reports of the tracks before it.
Stamped(points, k) ==
    [i \in DOMAIN points |->
        AISMessage(1, ((k - 1) * MaxTrackLen + i) * max_tgap,
                   points[i].lat, 0, 0, points[i].SOG)]

CorrPoints == [lat : {0, 1}, SOG : SOGs]

\* Track lists of a vessel after assembly: 1 .. MaxTracks tracks of two
\* reports each.
CorrTrackLists ==
    UNION { { [k \in 1 .. n |-> Stamped(ps[k], k)] :
                ps \in [1 .. n -> [1 .. 2 -> CorrPoints]] } : n \in 1 .. MaxTracks }

\* _time_mean_speed: coordinate distance over elapsed hours.
time_mean_speed(msg_t0, msg_t1) ==
    LET lat_offset  == (msg_t1.lat - msg_t0.lat) * (msg_t1.lat - msg_t0.lat)
        lon_offset  == (msg_t1.lon - msg_t0.lon) * (msg_t1.lon - msg_t0.lon)
        time_offset == msg_t1.timestamp - msg_t0.timestamp
        root == CHOOSE r \in 0 .. (lat_offset + lon_offset) : r * r = lat_offset + lon_offset
    IN  (root * 60 * 60) \div time_offset

\* pairwise(target.tracks): the consecutive pairs of the entries of the
\* vessel's track list.
pairwise(xs) == [i \in 1 .. (Len(xs) - 1) |-> << xs[i], xs[i + 1] >>]

\* _speed_correction and _position_correction read .lat, .SOG and
\* .timestamp of both members of every pair pairwise(target.tracks)
\* yields.  The members are tracks (lists), which have no such attribute:
\* the first pair raises AttributeError, and a vessel with fewer than two
\* tracks yields no pair.
correction_raises(tgts) ==
    \E m \in DOMAIN tgts : pairwise(tgts[m].tracks) # << >>

InitCorr ==
    /\ dynamic_data = << >>
    /\ is_bufferd = FALSE
    /\ query = "corrections"
    /\ pc = "speed"
    /\ tpos = NoTimePosition
    /\ neighbors = << >>
    /\ singles = << >>
    /\ \E tracks \in CorrTrackLists :
         /\ targets = (1 :> TargetShip(1, tracks))
         /\ assembled = (1 :> tracks)
    /\ result = None
    /\ err = None
    /\ n_speed_correction = 0
    /\ n_position_correction = 0
    /\ corr_passes = 0
    /\ AuxIdle
    /\ CallIdle

\* _corrections: self._speed_correction(targets)
SpeedCorrection ==
    /\ pc = "speed"
    /\ IF correction_raises(targets)
       THEN /\ err' = "AttributeError"
            /\ pc' = "done"
       ELSE /\ pc' = "position"
            /\ UNCHANGED err
    /\ UNCHANGED << query, dynamic_data, is_bufferd, tpos, neighbors, singles, targets,
                    assembled, result, n_speed_correction,
                    n_position_correction, corr_passes, auxVars, callVars, interpolated >>

\* _corrections: self._position_correction(targets) and the return.
PositionCorrection ==
    /\ pc = "position"
    /\ IF correction_raises(targets)
       THEN /\ err' = "AttributeError"
            /\ UNCHANGED << result, corr_passes >>
       ELSE /\ result' = targets
            /\ corr_passes' = corr_passes + 1
            /\ UNCHANGED err
    /\ pc' = "done"
    /\ UNCHANGED << query, dynamic_data, is_bufferd, tpos, neighbors, singles, targets,
                    assembled, n_speed_correction, n_position_correction, auxVars, callVars, interpolated >>

NextCorr ==
    \/ SpeedCorrection
    \/ PositionCorrection

SpecCorr == InitCorr /\ [][NextCorr]_vars

\* The pass of the claim over a track from pair i on: b.SOG becomes the
\* time-mean speed when that lies outside the closed band.
RECURSIVE BandPass(_, _)
BandPass(track, i) ==
    IF i >= Len(track) THEN [track |-> track, n |-> 0]
    ELSE LET a   == track[i]
             b   == track[i + 1]
             tms == time_mean_speed(a, b)
             lo  == a.SOG - (b.SOG - a.SOG)
             hi  == b.SOG + (b.SOG - a.SOG)
             out == tms < lo \/ tms > hi
             nxt == IF out THEN [track EXCEPT ![i + 1].SOG = tms] ELSE track
             rest == BandPass(nxt, i + 1)
         IN  [track |-> rest.track, n |-> rest.n + (IF out THEN 1 ELSE 0)]

RECURSIVE SumSeq(_)
SumSeq(ns) == IF ns = << >> THEN 0 ELSE Head(ns) + SumSeq(Tail(ns))

\* C10: after the speed correction every track is the outcome of the pass
\* that replaces b.SOG by the time-mean speed exactly when that lies
\* outside the band (end points inside), and the counter equals the number
\* of pairs corrected.
C10_SpeedCorrection ==
    (query = "corrections" /\ pc \in {"position", "done"}) =>
        /\ err = None
        /\ \A m \in DOMAIN targets :
             \A k \in DOMAIN targets[m].tracks :
                 targets[m].tracks[k] = BandPass(assembled[m][k], 1).track
        /\ n_speed_correction =
             SumSeq([k \in DOMAIN assembled[1] |-> BandPass(assembled[1][k], 1).n])

\* _break_down_velocity for a course of 0 or 90 degrees: the longitudinal
\* component speed * cos(course) and the lateral one speed * sin(course).
break_down_velocity(speed, course) ==
    IF course = 0 THEN << speed, 0 >> ELSE << 0, speed >>

\* The position pass of the claim over a track from pair i on: b's
\* position becomes the dead-reckoned one when the residual is at most
\* half the speed difference times the elapsed time.
RECURSIVE DeadReckonPass(_, _)
DeadReckonPass(track, i) ==
    IF i >= Len(track) THEN [track |-> track, n |-> 0]
    ELSE LET a     == track[i]
             b     == track[i + 1]
             dt    == b.timestamp - a.timestamp
             v     == break_down_velocity(a.SOG, a.COG)
             lont1 == a.lon + v[1] * dt
             latt1 == a.lat + v[2] * dt
             sq    == (lont1 - b.lon) * (lont1 - b.lon) + (latt1 - b.lat) * (latt1 - b.lat)
             twice == (b.SOG - a.SOG) * dt
             hit   == twice >= 0 /\ 4 * sq <= twice * twice
             nxt   == IF hit THEN [track EXCEPT ![i + 1].lon = lont1, ![i + 1].lat = latt1]
                      ELSE track
             rest  == DeadReckonPass(nxt, i + 1)
         IN  [track |-> rest.track, n |-> rest.n + (IF hit THEN 1 ELSE 0)]

\* C11: after the position correction every track is the outcome of the
\* pass that overwrites b's position with the dead-reckoned one exactly
\* when the residual is at most 0.5 * (SOG_b - SOG_a) * dt, nothing else is
\* written, and the counter equals the number of pairs overwritten.
C11_PositionCorrection ==
    (query = "corrections" /\ pc = "done" /\ err = None) =>
        /\ \A m \in DOMAIN targets :
             \A k \in DOMAIN targets[m].tracks :
                 targets[m].tracks[k] = DeadReckonPass(assembled[m][k], 1).track
        /\ n_position_correction =
             SumSeq([k \in DOMAIN assembled[1] |-> DeadReckonPass(assembled[1][k], 1).n])

\* ======================================= the segment filter (split) by itself
\* Tracks handed to split: one to three reports of one vessel on the
\* meridian, max_tgap seconds apart.
FilterTrack(mmsi, lats) ==
    [i \in DOMAIN lats |-> AISMessage(mmsi, (i - 1) * max_tgap, lats[i], 0, 0, 10)]

FilterTracks(mmsi) ==
    { FilterTrack(mmsi, lats) : lats \in SeqsUpTo({0, max_dgap}, 3) \ { << >> } }

\* Targets handed to split: vessel 1 with up to MaxTracks tracks or absent,
\* vessel 2 absent or with one track.
FilterTargets ==
    LET one == { << >> } \cup
               { << TargetShip(1, tracks) >> : tracks \in SeqsUpTo(FilterTracks(1), MaxTracks) }
        two == { << >>, << TargetShip(2, << FilterTrack(2, << 0, max_dgap >>) >>) >> }
    IN  { [m \in { v[1].mmsi : v \in { a, b } \ { << >> } } |->
              IF a # << >> /\ a[1].mmsi = m THEN a[1] ELSE b[1]] : a \in one, b \in two }

\* _track_length_filter
track_length_filter(track, n) == Len(track) < n

\* n * n * np.var(xs), the population variance scaled to an integer.
ScaledVar(xs) ==
    LET n == Len(xs)
    IN  n * SumSeq([i \in DOMAIN xs |-> xs[i] * xs[i]]) - SumSeq(xs) * SumSeq(xs)

\* _track_sd_filter: sqrt(var(lon)) + sqrt(var(lat)) < sd, decided exactly
\* on the squares.
track_sd_filter(track, sd) ==
    LET n  == Len(track)
        A  == ScaledVar([i \in DOMAIN track |-> track[i].lon])
        B  == ScaledVar([i \in DOMAIN track |-> track[i].lat])
        S  == sd * sd * n * n
    IN  /\ sd > 0
        /\ S - A - B > 0
        /\ 4 * A * B < (S - A - B) * (S - A - B)

\* _copy_track: the entry of the vessel is created with an empty track
\* list when the map does not have it; the track is appended.
copy_track(vessel, target, track) ==
    IF vessel.mmsi \in DOMAIN target
    THEN [target EXCEPT ![vessel.mmsi].tracks = Append(@, track)]
    ELSE [m \in DOMAIN target \cup { vessel.mmsi } |->
             IF m = vessel.mmsi THEN [vessel EXCEPT !.tracks = << track >>]
             ELSE target[m]]

\* The (vessel, track) pairs in the order the loops of split visit them.
RECURSIVE split_items(_, _)
split_items(tgts, todo) ==
    IF todo = {} THEN << >>
    ELSE LET m == CHOOSE x \in todo : \A y \in todo : x <= y
         IN  [k \in DOMAIN tgts[m].tracks |-> << tgts[m], tgts[m].tracks[k] >>]
             \o split_items(tgts, todo \ { m })

\* The loops of split and the log line that follows them.  The overlap
\* test calls _overlaps_search_date(track, tpos), which reads .tracks of
\* its first argument, a list: AttributeError.  The log line divides the
\* list n_rejected by n: TypeError.
RECURSIVE split_walk(_, _, _, _, _, _)
split_walk(items, overlap_tpos, sd, minlen, accepted, rejected) ==
    IF items = << >>
    THEN [err |-> "TypeError", accepted |-> accepted, rejected |-> rejected]
    ELSE LET target_ship == Head(items)[1]
             track       == Head(items)[2]
         IN  IF track_length_filter(track, minlen) \/ track_sd_filter(track, sd)
             THEN split_walk(Tail(items), overlap_tpos, sd, minlen,
                             accepted, copy_track(target_ship, rejected, track))
             ELSE IF overlap_tpos
             THEN [err |-> "AttributeError", accepted |-> accepted, rejected |-> rejected]
             ELSE split_walk(Tail(items), overlap_tpos, sd, minlen,
                             copy_track(target_ship, accepted, track), rejected)

\* SearchAgent.split of the earlier layout: what the call raises, or the
\* pair (accepted, rejected) it returns.
split(tgts, tp, overlap_tpos, sd, minlen) ==
    LET r == split_walk(split_items(tgts, DOMAIN tgts), overlap_tpos, sd, minlen,
                        EmptyTargets, EmptyTargets)
    IN  [err |-> r.err,
         value |-> IF r.err = None THEN << r.accepted, r.rejected >> ELSE << >>]

InitFilter ==
    /\ PipeIdle
    /\ AuxIdle
    /\ interpolated = << >>
    /\ call_args \in [targets : FilterTargets,
                      tpos : { [timestamp |-> t, lat |-> 0, lon |-> 0] : t \in Times },
                      overlap_tpos : BOOLEAN,
                      sd : {0, max_dgap},
                      minlen : {2, 3}]
    /\ call_ret = << >>

Split ==
    /\ call_ret = << >>
    /\ call_ret' = << split(call_args.targets, call_args.tpos, call_args.overlap_tpos,
                            call_args.sd, call_args.minlen) >>
    /\ UNCHANGED << pipeVars, auxVars, call_args, interpolated >>

NextFilter == Split

SpecFilter == InitFilter /\ [][NextFilter]_vars

\* A rule of the filter rejects the track: too short, too little spatial
\* deviation, or, when asked for, the anchor not strictly inside its span.
Rejects(track, a) ==
    \/ Len(track) < a.minlen
    \/ track_sd_filter(track, a.sd)
    \/ /\ a.overlap_tpos
       /\ ~ (track[1].timestamp < a.tpos.timestamp
             /\ a.tpos.timestamp < track[Len(track)].timestamp)

\* C12: split returns, and every track of every input vessel is in exactly
\* one of the two maps it returns: in rejected iff a rule rejects it,
\* otherwise in accepted, in input order.
C12_SplitPartition ==
    call_ret # << >> =>
        /\ call_ret[1].err = None
        /\ LET a        == call_args
               accepted == call_ret[1].value[1]
               rejected == call_ret[1].value[2]
           IN  \A m \in DOMAIN a.targets :
                   /\ TracksOf(rejected, m) =
                        SelectSeq(a.targets[m].tracks, LAMBDA t : Rejects(t, a))
                   /\ TracksOf(accepted, m) =
                        SelectSeq(a.targets[m].tracks, LAMBDA t : ~ Rejects(t, a))

\* ------------------------------------------------------- the overlap rule
\* The anchor lies strictly inside the time span of the track.
StrictlyInside(track) ==
    /\ track[1].timestamp < tpos.timestamp
    /\ tpos.timestamp < track[Len(track)].timestamp

\* The overlap filter of the running neighbour query has been applied.
Overlapped ==
    /\ SpPath
    /\ err = None
    /\ pc \in {"interpolate", "done"}

C13_Kept ==
    /\ Overlapped
    /\ pc = "done"
    /\ \E m \in DOMAIN result : result[m].tracks # << >>

MaxK == 3

\* Reports of one vessel at the anchor's time, 0, 10 and 20 minutes of arc
\* north of the anchor.
NeighborPool == { AISMessage(1, 0, lat, 0, 0, 10) : lat \in Lats }

\* SearchAgent._get_neighbors with max_tgt_ships = k: the possible
\* outcomes.  _time_filter reads the first row of the frame (IndexError
\* when there is none); cKDTree.query with k = 1 returns a scalar distance
\* and a scalar index, which the list comprehension cannot enumerate
\* (TypeError).
query_neighbors(data, tp, search_radius, k) ==
    IF data = << >> THEN { [err |-> "IndexError", value |-> << >>] }
    ELSE LET filtered == time_filter(data, tp.timestamp, time_delta)
             sr == IF search_radius = Inf THEN Inf ELSE (search_radius * 60) \div 60
         IN  IF filtered = << >> THEN { [err |-> None, value |-> filtered] }
             ELSE IF k = 1 THEN { [err |-> "TypeError", value |-> << >>] }
             ELSE { [err |-> None, value |-> ILoc(filtered, S)] :
                      S \in KdQuery(filtered, tp, k, sr) }

InitNeighbors ==
    /\ PipeIdle
    /\ AuxIdle
    /\ interpolated = << >>
    /\ call_args \in [data : SeqsUpTo(NeighborPool, MaxReports),
                      tpos : { NoTimePosition },
                      search_radius : { Inf, 15 },
                      k : 1..MaxK]
    /\ call_ret = << >>

GetNeighbors ==
    /\ call_ret = << >>
    /\ \E r \in query_neighbors(call_args.data, call_args.tpos,
                                call_args.search_radius, call_args.k) :
         call_ret' = << r >>
    /\ UNCHANGED << pipeVars, auxVars, call_args, interpolated >>

NextNeighbors == GetNeighbors

SpecNeighbors == InitNeighbors /\ [][NextNeighbors]_vars

\* The rows of the frame inside the time window and closer to the anchor
\* than the radius.
Candidates(a) ==
    { i \in DOMAIN a.data :
        /\ Abs(a.data[i].timestamp - a.tpos.timestamp) < time_delta * 60
        /\ \/ a.search_radius = Inf
           \/ haversine(a.data[i].lon, a.data[i].lat, a.tpos.lon, a.tpos.lat)
                < a.search_radius }

\* C14: on a non-empty pool the neighbour query with count bound k >= 1
\* returns without error exactly min(k, m) rows, m the number of
\* time-filtered rows within the radius, each of them one of those rows
\* with its fields unchanged.
C14_NeighborCount ==
    (call_ret # << >> /\ call_args.data # << >>) =>
        LET a == call_args
            m == Cardinality(Candidates(a))
            v == call_ret[1].value
        IN  /\ call_ret[1].err = None
            /\ Len(v) = IF a.k < m THEN a.k ELSE m
            /\ \E S \in SUBSET Candidates(a) : v = ILoc(a.data, S)

\* =================================================== the time filter by itself
\* Window widths in minutes: the agent's time_delta, and the width that
\* puts reports max_tgap seconds from the anchor on the window's edge.
Deltas == { max_tgap \div 60, time_delta }

\* SearchAgent._time_filter: the timezone is read off the first row
\* (IndexError when the frame has none), then the mask is applied.
time_filter_call(df, date, delta) ==
    IF df = << >> THEN [err |-> "IndexError", value |-> << >>]
    ELSE [err |-> None, value |-> time_filter(df, date, delta)]

InitWindow ==
    /\ PipeIdle
    /\ AuxIdle
    /\ interpolated = << >>
    /\ call_args \in [df : SeqsUpTo({ AISMessage(1, t, 0, 0, 0, 10) : t \in Times }, MaxReports),
                      date : Times,
                      delta : Deltas]
    /\ call_ret = << >>

TimeFilter ==
    /\ call_ret = << >>
    /\ call_ret' = << time_filter_call(call_args.df, call_args.date, call_args.delta) >>
    /\ UNCHANGED << pipeVars, auxVars, call_args, interpolated >>

NextWindow == TimeFilter

SpecWindow == InitWindow /\ [][NextWindow]_vars

\* C15: on a non-empty frame the time filter returns exactly the rows
\* whose timestamp is at most delta minutes from the anchor's, the rows
\* exactly delta minutes before or after it included, in frame order.
C15_InclusiveWindow ==
    (call_ret # << >> /\ call_args.df # << >>) =>
        /\ call_ret[1].err = None
        /\ call_ret[1].value =
             SelectSeq(call_args.df,
                       LAMBDA r : Abs(r.timestamp - call_args.date) <= call_args.delta * 60)

\* ------------------------------------------------------ empty neighbourhoods
\* C16: when the neighbour query finds no report inside the time window
\* and the radius, the empty pool included, get_ships raises nothing and
\* returns a result without vessels.
C16_EmptyIsNormal ==
    (SpPath /\ pc = "done" /\ neighbors = << >>) =>
        /\ err = None
        /\ result = EmptyTargets

\* ================================================= the fitting loop by itself
\* The maps get_ships hands to _interpolate_trajectories for an anchor at
\* max_tgap: each vessel is absent, or left without tracks by the filters,
\* or holds one track of three reports around the anchor.
InterpTargets ==
    LET tracksOf(m) ==
            { << >> } \cup
            { << FilterTrack(m, lats) >> : lats \in [1..3 -> {0, max_dgap}] }
    IN  UNION { [D -> UNION { { TargetShip(m, tr) : tr \in tracksOf(m) } : m \in D }]
                : D \in SUBSET MMSIs }

InitInterp ==
    /\ call_args \in { [tgts |-> tgts] :
                        tgts \in { f \in InterpTargets : \A m \in DOMAIN f : f[m].mmsi = m } }
    /\ call_ret = << >>
    /\ interpolated = << >>
    /\ AuxIdle
    /\ targets = call_args.tgts
    /\ assembled = [m \in DOMAIN targets |-> targets[m].tracks]
    /\ neighbors = Flatten([i \in 1..Cardinality(DOMAIN targets) |->
                              LET m == CHOOSE x \in DOMAIN targets :
                                         Cardinality({ y \in DOMAIN targets : y < x }) = i - 1
                              IN  Flatten(targets[m].tracks)])
    /\ dynamic_data = neighbors
    /\ is_bufferd = TRUE
    /\ query = "get_ships"
    /\ pc = "interpolate"
    /\ tpos = [timestamp |-> max_tgap, lat |-> 0, lon |-> 0]
    /\ singles = << >>
    /\ result = None
    /\ err = None
    /\ n_speed_correction = 0
    /\ n_position_correction = 0
    /\ corr_passes = 0

NextInterp == InterpolateTrajectories

SpecInterp == InitInterp /\ [][NextInterp]_vars

\* C17: get_ships returns without error; the returned map holds exactly
\* the vessels whose fit did not fail, each as it was handed to the loop,
\* so a failed fit removes that vessel and no other.
C17_FailedFitDropsOnlyThatVessel ==
    pc = "done" =>
        /\ err = None
        /\ DOMAIN result = { m \in DOMAIN call_args.tgts : interpolated[m] = "ok" }
        /\ \A m \in DOMAIN result : result[m] = call_args.tgts[m]

\* One vessel's fit has failed and the vessel is gone, another vessel's fit
\* has succeeded and the vessel is returned with its track.
C17_Witness ==
    /\ pc = "done"
    /\ \E m \in DOMAIN interpolated, n \in DOMAIN result :
          /\ interpolated[m] = "InterpolationError"
          /\ m \notin DOMAIN result
          /\ interpolated[n] = "ok"
          /\ result[n].tracks # << >>

\* ============================================== the interval query by itself
\* np.arange(start, end, interval): start, start + interval, ... below end.
RECURSIVE arange(_, _, _)
arange(start, end, interval) ==
    IF start >= end THEN << >>
    ELSE << start >> \o arange(start + interval, end, interval)

\* TargetVessel.find_shell
find_shell(track) == [lower |-> track[1], upper |-> Last(track)]

\* TargetVessel.observe_interval: the error it raises, or the timestamps
\* at which it evaluates the fitted model (the last column of the array it
\* returns).
observe_interval(track, start, end, interval) ==
    LET shell == find_shell(track)
    IN  IF start < shell.lower.timestamp \/ end > shell.upper.timestamp
        THEN [err |-> "OutofTimeBoundsError", timestamps |-> << >>]
        ELSE [err |-> None, timestamps |-> arange(start, end, interval)]

\* Interval bounds before, at, inside, and after the tracks' time domains.
QueryTimes == { 0 - max_tgap, 0, max_tgap \div 2, max_tgap, 2 * max_tgap, 3 * max_tgap }

InitObserve ==
    /\ PipeIdle
    /\ AuxIdle
    /\ interpolated = << >>
    /\ call_args \in [track : { FilterTrack(1, << 0, 0 >>), FilterTrack(1, << 0, 0, 0 >>) },
                      start : QueryTimes,
                      end : QueryTimes,
                      interval : { max_tgap \div 2, max_tgap }]
    /\ call_ret = << >>

ObserveInterval ==
    /\ call_ret = << >>
    /\ call_ret' = << observe_interval(call_args.track, call_args.start,
                                       call_args.end, call_args.interval) >>
    /\ UNCHANGED << pipeVars, auxVars, call_args, interpolated >>

NextObserve == ObserveInterval

SpecObserve == InitObserve /\ [][NextObserve]_vars

\* The timestamp lies in the time domain of the track.
InDomain(t, track) == track[1].timestamp <= t /\ t <= track[Len(track)].timestamp

\* C18: an interval query whose start or end lies outside the track's time
\* domain fails with the out-of-bounds error without evaluating the model,
\* and a query that does not fail evaluates it only inside the domain.
C18_OutOfBounds ==
    call_ret # << >> =>
        LET a == call_args
            r == call_ret[1]
        IN  /\ (~ InDomain(a.start, a.track) \/ ~ InDomain(a.end, a.track)) =>
                  (r.err = "OutofTimeBoundsError" /\ r.timestamps = << >>)
            /\ r.err = None =>
                  \A i \in DOMAIN r.timestamps : InDomain(r.timestamps[i], a.track)

\* --------------------------------------------------- joining chunk-local tracks
\* The chunk-local tracks of vessel m, in chunk order.
LocalTracks(m) ==
    LET mine == SelectSeq(singles, LAMBDA tv : tv.mmsi = m)
    IN  [i \in DOMAIN mine |-> mine[i].tracks[1]]

\* The first n chunk-local tracks put one after the other, the first
\* report of a track left out when it has the timestamp of the report
\* before the seam.
RECURSIVE Concatenated(_, _)
Concatenated(locals, n) ==
    IF n = 1 THEN locals[1]
    ELSE LET sofar == Concatenated(locals, n - 1)
             next  == locals[n]
         IN  sofar \o SubSeq(next,
                             IF sofar[Len(sofar)].timestamp = next[1].timestamp THEN 2 ELSE 1,
                             Len(next))

\* _join_tracks has returned.
Joined == query = "get_all_ships" /\ pc = "split"

\* C19: the join returns one track per vessel of the chunks: its
\* chunk-local tracks concatenated in chunk order, the first report of a
\* later chunk's track dropped exactly when it has the timestamp of the
\* last report joined so far; the join raises nothing.
C19_JoinConcatenates ==
    Joined =>
        /\ err = None
        /\ DOMAIN targets = { singles[i].mmsi : i \in DOMAIN singles }
        /\ \A m \in DOMAIN targets :
              targets[m].tracks = << Concatenated(LocalTracks(m), Len(LocalTracks(m))) >>

\* A vessel's second chunk-local track held a single report with the
\* timestamp of the last report of the first; the report was dropped and
\* the joined track is the first chunk's.
C19_Witness ==
    /\ Joined
    /\ \E m \in DOMAIN targets :
          LET locals == LocalTracks(m)
          IN  /\ Len(locals) = 2
              /\ Len(locals[2]) = 1
              /\ locals[2][1].timestamp = Last(locals[1]).timestamp
              /\ targets[m].tracks[1] = locals[1]

\* =============================== the worker pool of _mp_construct_target_vessels
\* The loaded reports of the pool runs: two vessels, two times, vessel 1
\* reported twice at time 0.
WorkerPool ==
    { AISMessage(1, 0, 0, 0, 0, 10), AISMessage(1, 0, 2 * max_dgap, 0, 0, 10),
      AISMessage(1, max_tgap, 0, 0, 0, 10),
      AISMessage(2, 0, 0, 0, 0, 10), AISMessage(2, max_tgap, 0, 0, 0, 10) }

\* What a starmap hands back when it hands the results back as the tasks
\* finish.
collect_as_completed(done, order) == [k \in DOMAIN order |-> done[order[k]][1]]

\* What pool.starmap returns: the results of the tasks in the order of the
\* argument list, whatever the order in which the workers finished.
collect(done, order) == [i \in DOMAIN done |-> done[i][1]]

\* get_all_ships on a loaded pool whose loader cuts it into call_args.chunks;
\* call_args.next is the chunk the loop takes next.  No starmap is in flight.
InitPool ==
    /\ dynamic_data \in SeqsUpTo(WorkerPool, MaxReports)
    /\ is_bufferd = TRUE
    /\ query = "get_all_ships"
    /\ pc = "chunk"
    /\ tpos = NoTimePosition
    /\ neighbors = << >>
    /\ singles = << >>
    /\ targets = EmptyTargets
    /\ assembled = EmptyTargets
    /\ result = None
    /\ err = None
    /\ n_speed_correction = 0
    /\ n_position_correction = 0
    /\ corr_passes = 0
    /\ AuxIdle
    /\ interpolated = << >>
    /\ call_args \in { [chunks |-> c, next |-> 1] : c \in Chunkings(dynamic_data, MaxChunks) }
    /\ call_ret = << >>

\* The loop body up to the call: _distribute and the submission of one
\* task per frame.  call_ret holds the starmap: the frames in submission
\* order, the result of every finished task, and the order of finishing.
Starmap ==
    /\ pc = "chunk"
    /\ call_args.next <= Len(call_args.chunks)
    /\ LET single_frames == distribute(call_args.chunks[call_args.next])
       IN  call_ret' = << [frames |-> single_frames,
                          done   |-> [i \in DOMAIN single_frames |-> << >>],
                          order  |-> << >>] >>
    /\ call_args' = [call_args EXCEPT !.next = @ + 1]
    /\ pc' = "starmap"
    /\ UNCHANGED << query, dynamic_data, is_bufferd, tpos, neighbors, singles, targets,
                    assembled, result, err, n_speed_correction,
                    n_position_correction, corr_passes, auxVars, interpolated >>

\* A worker process runs _impl_construct_target_vessel on the frame of
\* one pending task, on its own copies of the arguments.
RunTask ==
    /\ pc = "starmap"
    /\ \E i \in DOMAIN call_ret[1].frames :
         /\ call_ret[1].done[i] = << >>
         /\ \E tv \in impl_construct_target_vessel(call_ret[1].frames[i]) :
              call_ret' = << [call_ret[1] EXCEPT !.done[i] = << tv >>,
                                                  !.order = Append(@, i)] >>
    /\ UNCHANGED << pipeVars, auxVars, call_args, interpolated >>

\* starmap returns when every task has finished: singles.extend(res)
StarmapReturns ==
    /\ pc = "starmap"
    /\ \A i \in DOMAIN call_ret[1].frames : call_ret[1].done[i] # << >>
    /\ singles' = singles \o collect(call_ret[1].done, call_ret[1].order)
    /\ pc' = "chunk"
    /\ UNCHANGED << query, dynamic_data, is_bufferd, tpos, neighbors, targets,
                    assembled, result, err, n_speed_correction,
                    n_position_correction, corr_passes, auxVars, callVars, interpolated >>

\* The loader has no further chunk: the loop and the pool end.
ChunksExhausted ==
    /\ pc = "chunk"
    /\ call_args.next > Len(call_args.chunks)
    /\ pc' = "join"
    /\ UNCHANGED << query, dynamic_data, is_bufferd, tpos, neighbors, singles, targets,
                    assembled, result, err, n_speed_correction,
                    n_position_correction, corr_passes, auxVars, callVars, interpolated >>

NextPool ==
    \/ Starmap
    \/ RunTask
    \/ StarmapReturns
    \/ ChunksExhausted
    \/ JoinTracks
    \/ DetermineSplitPoints
    \/ SortByTimestamp

SpecPool == InitPool /\ [][NextPool]_vars

\* The chunks whose starmap has returned.
Returned ==
    SubSeq(call_args.chunks, 1,
           IF pc = "starmap" THEN call_args.next - 2 ELSE call_args.next - 1)

\* C20: whatever the order in which the workers run and finish, every
\* report of a chunk is in the frame of exactly one task, the one of its
\* vessel id; a finished task holds a result of its own frame; the results
\* are collected in submission order, chunk after chunk; and the map
\* get_all_ships returns is the one built from them in that order.
C20_OrderIndependent ==
    /\ call_ret # << >> =>
          LET s     == call_ret[1]
              chunk == call_args.chunks[call_args.next - 1]
          IN  /\ \A i, j \in DOMAIN s.frames :
                    s.frames[i][1].sender = s.frames[j][1].sender => i = j
              /\ \A i \in DOMAIN s.frames :
                    s.frames[i] =
                       SelectSeq(chunk, LAMBDA r : r.sender = s.frames[i][1].sender)
              /\ \A k \in DOMAIN chunk :
                    \E i \in DOMAIN s.frames : chunk[k].sender = s.frames[i][1].sender
              /\ \A i \in DOMAIN s.frames :
                    s.done[i] # << >> =>
                       s.done[i][1] \in impl_construct_target_vessel(s.frames[i])
              /\ pc # "starmap" =>
                    \A i \in DOMAIN s.frames :
                       singles[Len(singles) - Len(s.frames) + i] = s.done[i][1]
    /\ singles \in construct_singles(Returned)
    /\ (pc = "done" /\ err = None) =>
          result = determine_split_points(join_tracks(singles, EmptyTargets))

\* get_all_ships has returned after two chunks, the second task of the
\* last starmap having finished before its first.
C20_Witness ==
    /\ pc = "done"
    /\ err = None
    /\ call_ret # << >>
    /\ call_ret[1].order = << 2, 1 >>
    /\ Len(singles) > 2

\* ------------------------------------------------- order of a vessel's tracks
\* Consecutive non-empty tracks of the list are apart in time: the last
\* report of one is earlier than the first report of the next.
TimeOrdered(tracks) ==
    \A k \in 1 .. (Len(tracks) - 1) :
        (tracks[k] # << >> /\ tracks[k + 1] # << >>) =>
            Last(tracks[k]).timestamp < tracks[k + 1][1].timestamp

\* C21: the tracks of one vessel are time-ordered and disjoint, both as the
\* assembler builds them and in every returned result: the last timestamp
\* of a track is smaller than the first timestamp of the next one.
C21_SegmentsOrdered ==
    /\ Assembled => \A m \in DOMAIN assembled : TimeOrdered(assembled[m])
    /\ (pc = "done" /\ err = None) => \A m \in DOMAIN result : TimeOrdered(result[m].tracks)

\* ------------------------------------------------ reports with one timestamp
\* The first row of the frame that carries the timestamp.
FirstOccurrence(frame, t) ==
    frame[CHOOSE k \in DOMAIN frame :
            /\ frame[k].timestamp = t
            /\ \A j \in 1 .. (k - 1) : frame[j].timestamp # t]

\* C22: the track a worker builds from the frame of one vessel holds, for
\* every timestamp of the frame, exactly one report, and it is the first
\* row of the frame with that timestamp.
C22_KeepsFirstOccurrence ==
    call_ret # << >> =>
        \A i \in DOMAIN call_ret[1].frames :
            call_ret[1].done[i] # << >> =>
                LET frame == call_ret[1].frames[i]
                    track == call_ret[1].done[i][1].tracks[1]
                IN  /\ { track[k].timestamp : k \in DOMAIN track } =
                         { frame[k].timestamp : k \in DOMAIN frame }
                    /\ \A k \in DOMAIN track :
                          track[k] = FirstOccurrence(frame, track[k].timestamp)

\* ============================================ the signature check of a Recipe
\* What inspect.signature shows of a candidate rule: whether the object
\* is callable, the names of its parameters in order, the annotation of
\* its parameter `track` and its return annotation.
RuleObjects ==
    { [callable |-> FALSE, parameters |-> << >>, annotation |-> "empty",
       return_annotation |-> "empty"] }
    \cup [callable : { TRUE },
          parameters : { << >>, << "track" >>, << "track", "n" >>, << "x" >>,
                         << "x", "track" >> },
          annotation : { "list[AISMessage]", "list" },
          return_annotation : { "bool", "empty" }]

\* rules._check_signature: the exception it raises, or None.
\* next(iter(sig.parameters)) raises StopIteration when the callable has
\* no parameter.
check_signature(func) ==
    IF ~ func.callable THEN "TypeError"
    ELSE IF func.parameters = << >> THEN "StopIteration"
    ELSE IF func.parameters[1] # "track" THEN "TypeError"
    ELSE IF func.annotation # "list[AISMessage]" THEN "TypeError"
    ELSE IF func.return_annotation # "bool" THEN "TypeError"
    ELSE None

\* Recipe.__init__: the rules are checked in order, the first exception
\* ends the construction.
RECURSIVE Recipe(_)
Recipe(fs) ==
    IF fs = << >> THEN None
    ELSE IF check_signature(Head(fs)) # None THEN check_signature(Head(fs))
    ELSE Recipe(Tail(fs))

InitRecipe ==
    /\ PipeIdle
    /\ AuxIdle
    /\ interpolated = << >>
    /\ call_args \in { [funcs |-> fs] : fs \in SeqsUpTo(RuleObjects, MaxRules) }
    /\ call_ret = << >>

RecipeInit ==
    /\ call_ret = << >>
    /\ call_ret' = << [err |-> Recipe(call_args.funcs)] >>
    /\ UNCHANGED << pipeVars, auxVars, call_args, interpolated >>

SpecRecipe == InitRecipe /\ [][RecipeInit]_vars

\* C23: constructing a Recipe fails with TypeError when one of its rules
\* is not callable, has no parameter, has a first parameter not named
\* track, a track parameter not annotated list[AISMessage], or a return
\* annotation other than bool; otherwise the construction succeeds.
C23_SignatureChecked ==
    call_ret # << >> =>
        LET compatible(f) ==
                /\ f.callable
                /\ f.parameters # << >>
                /\ f.parameters[1] = "track"
                /\ f.annotation = "list[AISMessage]"
                /\ f.return_annotation = "bool"
            fs == call_args.funcs
        IN  call_ret[1].err =
               IF \A i \in DOMAIN fs : compatible(fs[i]) THEN None ELSE "TypeError"

\* ============================================ the anchor handed to the agent
\* What SearchAgent.init (and, with the same first statement,
\* _get_neighbors) of the earlier layout leaves in the TimePosition it is
\* given: tpos._is_utm = self._utm binds a new attribute of the caller's
\* object.
init(tp, utm) ==
    [f \in DOMAIN tp \cup { "_is_utm" } |-> IF f = "_is_utm" THEN utm ELSE tp[f]]

\* A validated TimePosition, and an agent in UTM or lat/lon mode that is
\* or is not initialised yet.
InitAnchor ==
    /\ PipeIdle
    /\ AuxIdle
    /\ interpolated = << >>
    /\ call_args \in [tpos : { [timestamp |-> t, lat |-> la, lon |-> lo,
                                as_array |-> << t, la, lo >>] :
                                  t \in Times, la \in Lats, lo \in { 0, max_dgap } },
                      utm : BOOLEAN,
                      is_initialized : BOOLEAN]
    /\ call_ret = << >>

\* agent.init(tpos): call_ret holds the caller's TimePosition after the call.
AgentInit ==
    /\ call_ret = << >>
    /\ call_ret' = << [tpos |-> init(call_args.tpos, call_args.utm)] >>
    /\ UNCHANGED << pipeVars, auxVars, call_args, interpolated >>

SpecAnchor == InitAnchor /\ [][AgentInit]_vars

\* C24: the TimePosition handed to the agent has, after the call, the
\* fields it had before, with the values it had before, and no other.
C24_AnchorUnchanged ==
    call_ret # << >> =>
        /\ DOMAIN call_ret[1].tpos = DOMAIN call_args.tpos
        /\ \A f \in DOMAIN call_args.tpos : call_ret[1].tpos[f] = call_args.tpos[f]

\* ================================================= static attribute lookups
\* np.unique: the distinct values in ascending order.
RECURSIVE np_unique(_)
np_unique(S) ==
    IF S = {} THEN << >>
    ELSE LET lo == CHOOSE x \in S : \A y \in S : x <= y
         IN  << lo >> \o np_unique(S \ { lo })

\* SearchAgent._get_ship_type: the array of all types when there are
\* several, else the list of the array (one value or none).
get_ship_type(static_msgs, mmsi) ==
    np_unique({ static_msgs[i].ship_type :
                  i \in { j \in DOMAIN static_msgs : static_msgs[j].mmsi = mmsi } })

\* SearchAgent._get_ship_length: max(sl), a number, when there are several
\* lengths, else the array sl itself (one value or none).
get_ship_length(static_msgs, mmsi) ==
    LET sl == np_unique({ static_msgs[i].to_bow + static_msgs[i].to_stern :
                            i \in { j \in DOMAIN static_msgs : static_msgs[j].mmsi = mmsi } })
    IN  IF Len(sl) > 1 THEN [scalar |-> TRUE, values |-> << Last(sl) >>]
        ELSE [scalar |-> FALSE, values |-> sl]

\* The static reports a loader can hold.
StaticRows ==
    [mmsi : MMSIs, ship_type : { 70, 80 }, to_bow : { 50, 100 }, to_stern : { 50 }]

InitStatic ==
    /\ PipeIdle
    /\ AuxIdle
    /\ interpolated = << >>
    /\ call_args \in [static_msgs : SeqsUpTo(StaticRows, MaxTrackLen), mmsi : MMSIs]
    /\ call_ret = << >>

\* The two lookups of the tsea layout for one vessel id.
GetShipAttributes ==
    /\ call_ret = << >>
    /\ call_ret' = << [ship_type |-> get_ship_type(call_args.static_msgs, call_args.mmsi),
                      length |-> get_ship_length(call_args.static_msgs, call_args.mmsi)] >>
    /\ UNCHANGED << pipeVars, auxVars, call_args, interpolated >>

\* The two lookups of the earlier layout: with several distinct values
\* each returns the first of the sorted array, st[0] and sl[0].
GetShipAttributesEarlier ==
    /\ call_ret = << >>
    /\ LET st == get_ship_type(call_args.static_msgs, call_args.mmsi)
           sl == np_unique({ r.to_bow + r.to_stern :
                               r \in { x \in Range(call_args.static_msgs) :
                                         x.mmsi = call_args.mmsi } })
       IN  call_ret' = << [ship_type |-> IF Len(st) > 1 THEN << st[1] >> ELSE st,
                           length |-> IF Len(sl) > 1
                                      THEN [scalar |-> TRUE, values |-> << sl[1] >>]
                                      ELSE [scalar |-> FALSE, values |-> sl]] >>
    /\ UNCHANGED << pipeVars, auxVars, call_args, interpolated >>

NextStatic ==
    \/ GetShipAttributes
    \/ GetShipAttributesEarlier

SpecStatic == InitStatic /\ [][NextStatic]_vars

\* C25: for a vessel id the type lookup returns every distinct ship type
\* of its static reports, the length lookup the largest of their distinct
\* lengths; a single distinct value is returned as it is, and an id
\* without static report gives an empty value.
C25_StaticResolution ==
    call_ret # << >> =>
        LET mine    == { r \in Range(call_args.static_msgs) : r.mmsi = call_args.mmsi }
            types   == { r.ship_type : r \in mine }
            lengths == { r.to_bow + r.to_stern : r \in mine }
        IN  /\ { call_ret[1].ship_type[i] : i \in DOMAIN call_ret[1].ship_type } = types
            /\ Len(call_ret[1].ship_type) = Cardinality(types)
            /\ call_ret[1].length.values =
                 IF lengths = {} THEN << >>
                 ELSE << CHOOSE x \in lengths : \A y \in lengths : y <= x >>

\* ======================================================= decoding the raw ROT
MaxRawRot == 130

\* A handler that knows only 127 as the mark of an unavailable rate.
rot_handler_127(rot) ==
    IF ~ rot.numeric \/ Abs(rot.value) = 127 THEN [null |-> TRUE, sign |-> 0, num |-> 0, den |-> 1]
    ELSE [null |-> FALSE,
          sign |-> IF rot.value > 0 THEN 1 ELSE IF rot.value < 0 THEN 0 - 1 ELSE 0,
          num |-> rot.value * 1000, den |-> 4733]

\* AISMessage._rot_handler.  float(rot) fails for a raw value that is not
\* numeric.  The decoded rate sign * (rot / 4.733) ** 2 is held exactly, as
\* sign * (num / den) ^ 2.
rot_handler(rot) ==
    IF ~ rot.numeric THEN [null |-> TRUE, sign |-> 0, num |-> 0, den |-> 1]
    ELSE LET sign == IF rot.value > 0 THEN 1 ELSE IF rot.value < 0 THEN 0 - 1 ELSE 0
         IN  IF Abs(rot.value) = 127 \/ Abs(rot.value) = 128
             THEN [null |-> TRUE, sign |-> 0, num |-> 0, den |-> 1]
             ELSE [null |-> FALSE, sign |-> sign, num |-> rot.value * 1000, den |-> 4733]

\* AISMessage(..., ROT = raw): a number, or something float() rejects.
InitRot ==
    /\ PipeIdle
    /\ AuxIdle
    /\ interpolated = << >>
    /\ call_args \in [rot : [numeric : { TRUE }, value : (0 - MaxRawRot) .. MaxRawRot]
                            \cup { [numeric |-> FALSE, value |-> 0] }]
    /\ call_ret = << >>

\* __post_init__: self.ROT = self._rot_handler(self.ROT)
RotHandler ==
    /\ call_ret = << >>
    /\ call_ret' = << rot_handler(call_args.rot) >>
    /\ UNCHANGED << pipeVars, auxVars, call_args, interpolated >>

SpecRot == InitRot /\ [][RotHandler]_vars

\* C26: a raw ROT that is not numeric, or is 127, -127, 128 or -128,
\* decodes to null; every other raw value r decodes to
\* sign(r) * (r / 4.733)^2: the magnitude is the square of |r| / 4.733, the
\* sign is that of r, and 0 decodes to 0.
C26_RotDecoding ==
    call_ret # << >> =>
        LET raw == call_args.rot
            dec == call_ret[1]
        IN  IF ~ raw.numeric \/ raw.value \in { 127, 0 - 127, 128, 0 - 128 }
            THEN dec.null
            ELSE /\ ~ dec.null
                 /\ dec.den > 0
                 /\ Abs(dec.num) * 4733 = Abs(raw.value) * 1000 * dec.den
                 /\ (dec.sign > 0) = (raw.value > 0)
                 /\ (dec.sign < 0) = (raw.value < 0)
                 /\ raw.value = 0 => dec.sign * dec.num = 0

\* A raw value of -128 has been decoded to null.
C26_Witness ==
    /\ call_ret # << >>
    /\ call_args.rot.numeric
    /\ call_args.rot.value = 0 - 128
    /\ call_ret[1].null

\* ================================================ a vessel and its fitted model
\* A TargetVessel as its constructor leaves it: a track of two reports
\* (timestamp, COG, ROT; a missing ROT is << >>), the interpolation flag, and
\* no attribute `interpolation`.  call_args holds the vessel, call_ret the
\* outcome of the query answered last.
InitFit ==
    /\ PipeIdle
    /\ AuxIdle
    /\ interpolated = << >>
    /\ call_args \in [track : { << [timestamp |-> 0, COG |-> 0, ROT |-> << 0, 1 >>],
                                 [timestamp |-> t, COG |-> c, ROT |-> r] >> :
                                   t \in { 0, max_tgap }, c \in { 0, 90, 180 },
                                   r \in { << >>, << 0, 1 >> } },
                      lininterp : BOOLEAN,
                      interpolation : { << >> }]
    /\ call_ret = << >>

\* TargetVessel.interpolate: TrackLinear or TrackSplines is fitted to the
\* reports of the track as they are now and bound to self.interpolation;
\* when the fit raises, InterpolationError leaves the attribute as it was.
Interpolate ==
    /\ \/ call_args' = [call_args EXCEPT !.interpolation = << call_args.track >>]
       \/ UNCHANGED call_args
    /\ call_ret' = << >>
    /\ UNCHANGED << pipeVars, auxVars, interpolated >>

\* TargetVessel.fill_rot on a track of two reports: a missing ROT of the
\* second report becomes the COG difference over the elapsed seconds * 60
\* (0.0 when no time has elapsed); the second loop skips both reports.
\* self.interpolation is not touched.
FillRot ==
    /\ LET t0  == call_args.track[1]
           t1  == call_args.track[2]
           den == (t1.timestamp - t0.timestamp) * 60
       IN  call_args' = [call_args EXCEPT !.track[2].ROT =
                            IF @ # << >> THEN @
                            ELSE IF den = 0 THEN << 0, 1 >>
                            ELSE << t1.COG - t0.COG, den >>]
    /\ call_ret' = << >>
    /\ UNCHANGED << pipeVars, auxVars, interpolated >>

\* TargetVessel.observe_at_query / observe_interval: the query reads
\* self.interpolation as it is, AttributeError when interpolate has never
\* bound it; `model` is the track the answering model was fitted to.
Observe ==
    /\ call_ret' = << IF call_args.interpolation = << >>
                      THEN [err |-> "AttributeError", model |-> << >>]
                      ELSE [err |-> None, model |-> call_args.interpolation] >>
    /\ UNCHANGED << pipeVars, auxVars, call_args, interpolated >>

SpecFit == InitFit /\ [][Interpolate \/ FillRot \/ Observe]_vars

\* C27: a query is answered, without error, by a model fitted to the
\* reports the track holds at the time of the query.
C27_ModelIsCurrent ==
    call_ret # << >> =>
        /\ call_ret[1].err = None
        /\ call_ret[1].model = << call_args.track >>

\* ===================================================== _copy_track by itself
\* A vessel with one or more tracks, the index of one of them, and a map
\* that is empty, holds the vessel already, or holds another vessel.
InitCopy ==
    /\ PipeIdle
    /\ AuxIdle
    /\ interpolated = << >>
    /\ \E tracks \in SeqsUpTo(FilterTracks(1), MaxTracks) \ { << >> } :
         call_args \in [vessel : { TargetShip(1, tracks) },
                        k : DOMAIN tracks,
                        target : { EmptyTargets,
                                   [m \in { 1 } |-> TargetShip(1, << FilterTrack(1, << 0 >>) >>)],
                                   [m \in { 2 } |-> TargetShip(2, << FilterTrack(2, << 0 >>) >>)] }]
    /\ call_ret = << >>

\* self._copy_track(vessel, target, vessel.tracks[k]): call_ret holds the
\* vessel and the map after the call.  Nothing is written to the vessel.
CopyTrack ==
    /\ call_ret = << >>
    /\ call_ret' = << [vessel |-> call_args.vessel,
                      target |-> copy_track(call_args.vessel, call_args.target,
                                            call_args.vessel.tracks[call_args.k])] >>
    /\ UNCHANGED << pipeVars, auxVars, call_args, interpolated >>

SpecCopy == InitCopy /\ [][CopyTrack]_vars

\* C28: _copy_track moves the track: it becomes the last track of the
\* vessel's entry in the map (a new entry holds only it), it is gone from
\* the vessel's own track list, and the vessel's other tracks and the
\* other entries of the map are as before.
C28_TrackMoved ==
    call_ret # << >> =>
        LET a       == call_args
            track   == a.vessel.tracks[a.k]
            before  == TracksOf(a.target, a.vessel.mmsi)
            after   == call_ret[1].target
        IN  /\ DOMAIN after = DOMAIN a.target \cup { a.vessel.mmsi }
            /\ after[a.vessel.mmsi].tracks = Append(before, track)
            /\ \A m \in DOMAIN a.target : m # a.vessel.mmsi => after[m] = a.target[m]
            /\ call_ret[1].vessel.tracks = RemoveAt(a.vessel.tracks, a.k)

\* ============================================== buffering over several queries
MaxCalls == 4

\* A get_ships that marks the agent as buffered before the load has
\* succeeded.
get_ships_buffer_eager(bufferd, load_ok) ==
    [load |-> ~ bufferd, raised |-> ~ bufferd /\ ~ load_ok, is_bufferd |-> TRUE]

\* get_ships up to the neighbour query: `if not self._is_bufferd:
\* self._buffer_data()`.  _buffer_data calls loader.load() and sets the
\* flag after it; when load raises, the flag is not set and get_ships is
\* left by the exception.
get_ships_buffer(bufferd, load_ok) ==
    [load |-> ~ bufferd, raised |-> ~ bufferd /\ ~ load_ok,
     is_bufferd |-> bufferd \/ load_ok]

\* A fresh agent over a loader whose files hold call_args.source; nothing is
\* in memory.  call_args counts the calls made and the loads executed and
\* completed.
InitBuffer ==
    /\ PipeIdle
    /\ AuxIdle
    /\ interpolated = << >>
    /\ call_args \in [source : SeqsUpTo(WorkerPool, 2) \ { << >> },
                      calls : { 0 }, executed : { 0 }, completed : { 0 }]
    /\ call_ret = << >>

\* One get_ships call; call_ret tells whether it ran the load, whether it
\* raised, and the pool its neighbour query read (<< >> when none ran).
GetShipsCall ==
    /\ call_args.calls < MaxCalls
    /\ \E load_ok \in BOOLEAN :
         LET b == get_ships_buffer(is_bufferd, load_ok)
         IN  /\ is_bufferd' = b.is_bufferd
             /\ dynamic_data' = IF b.load /\ ~ b.raised THEN call_args.source
                                ELSE dynamic_data
             /\ call_args' = [call_args EXCEPT
                                !.calls = @ + 1,
                                !.executed = IF b.load THEN @ + 1 ELSE @,
                                !.completed = IF b.load /\ ~ b.raised THEN @ + 1 ELSE @]
             /\ call_ret' = << [load |-> b.load, raised |-> b.raised,
                                queried |-> IF b.raised THEN << >>
                                            ELSE << dynamic_data' >>] >>
    /\ UNCHANGED << query, pc, tpos, neighbors, singles, targets, assembled, result, err,
                    n_speed_correction, n_position_correction, corr_passes,
                    auxVars, interpolated >>

SpecBuffer == InitBuffer /\ [][GetShipsCall]_vars

\* C29: over a sequence of get_ships calls the load completes at most
\* once, the agent is buffered exactly when it has completed, every
\* neighbour query reads the loaded pool, a call whose load fails runs no
\* query and leaves the agent unbuffered, and a buffered agent loads no
\* more.
C29_LoadedOnce ==
    /\ call_args.completed <= 1
    /\ is_bufferd <=> call_args.completed = 1
    /\ call_ret # << >> =>
          /\ call_ret[1].queried # << >> =>
                (is_bufferd /\ call_ret[1].queried = << call_args.source >>)
          /\ call_ret[1].raised => (~ is_bufferd /\ call_ret[1].queried = << >>)
          /\ (call_ret[1].load /\ ~ call_ret[1].raised) =>
                call_args.executed = call_args.calls

\* After two failed loads the third call has loaded, and the fourth call
\* has queried the pool without loading.
C29_Witness ==
    /\ call_args.calls = 4
    /\ call_args.executed = 3
    /\ call_args.completed = 1
    /\ call_ret # << >>
    /\ ~ call_ret[1].load
    /\ call_ret[1].queried = << call_args.source >>

\* ======================================================== trajectory matching
\* A TrajectoryMatcher that finds its starting point with the comparison of
\* _start turned around.
TrajectoryMatcherEarliest(vessel1, vessel2) ==
    LET s1 == find_shell(vessel1)
        s2 == find_shell(vessel2)
    IN  IF \/ s1.upper.timestamp < s2.lower.timestamp
           \/ s2.upper.timestamp < s1.lower.timestamp
        THEN [disjoint_trajectories |-> TRUE, start |-> << >>, end |-> << >>]
        ELSE [disjoint_trajectories |-> FALSE,
              start |-> << IF s1.lower.timestamp > s2.lower.timestamp
                           THEN s2.lower.timestamp ELSE s1.lower.timestamp >>,
              end |-> << IF s1.upper.timestamp > s2.upper.timestamp
                         THEN s2.upper.timestamp ELSE s1.upper.timestamp >>]

\* TrajectoryMatcher.__init__ with _disjoint, _start and _end: the
\* attributes of the new matcher; start and end are not set (<< >>) when
\* the trajectories are disjoint.
TrajectoryMatcher(vessel1, vessel2) ==
    LET s1 == find_shell(vessel1)
        s2 == find_shell(vessel2)
    IN  IF \/ s1.upper.timestamp < s2.lower.timestamp
           \/ s2.upper.timestamp < s1.lower.timestamp
        THEN [disjoint_trajectories |-> TRUE, start |-> << >>, end |-> << >>]
        ELSE [disjoint_trajectories |-> FALSE,
              start |-> << IF s1.lower.timestamp < s2.lower.timestamp
                           THEN s2.lower.timestamp ELSE s1.lower.timestamp >>,
              end |-> << IF s1.upper.timestamp > s2.upper.timestamp
                         THEN s2.upper.timestamp ELSE s1.upper.timestamp >>]

\* A matcher over two vessels whose tracks of up to MaxTrackLen reports
\* begin at any multiple of max_tgap up to MaxTrackLen; call_ret is what its observe_interval has done.
InitMatcher ==
    /\ PipeIdle
    /\ AuxIdle
    /\ interpolated = << >>
    /\ \E a, b \in 0 .. MaxTrackLen, n, k \in 1 .. MaxTrackLen, interval \in { max_tgap \div 2, max_tgap } :
         LET vessel1 == [i \in 1 .. n |->
                           AISMessage(1, (a + i - 1) * max_tgap, 0, 0, 0, 10)]
             vessel2 == [i \in 1 .. k |->
                           AISMessage(2, (b + i - 1) * max_tgap, 0, 0, 0, 10)]
         IN  call_args = [vessel1 |-> vessel1, vessel2 |-> vessel2,
                          matcher |-> TrajectoryMatcher(vessel1, vessel2),
                          interval |-> interval]
    /\ call_ret = << >>

\* TrajectoryMatcher.observe_interval: the error that ends it and the
\* result of each vessel's observe_interval it has called.
MatcherObserveInterval ==
    /\ call_ret = << >>
    /\ LET m == call_args.matcher
       IN  IF m.disjoint_trajectories
           THEN call_ret' = << [err |-> "ValueError",
                                obs_vessel1 |-> << >>, obs_vessel2 |-> << >>] >>
           ELSE LET o1 == observe_interval(call_args.vessel1, m.start[1], m.end[1],
                                           call_args.interval)
                    o2 == observe_interval(call_args.vessel2, m.start[1], m.end[1],
                                           call_args.interval)
                IN  IF o1.err # None
                    THEN call_ret' = << [err |-> o1.err, obs_vessel1 |-> << o1 >>,
                                         obs_vessel2 |-> << >>] >>
                    ELSE call_ret' = << [err |-> o2.err, obs_vessel1 |-> << o1 >>,
                                         obs_vessel2 |-> << o2 >>] >>
    /\ UNCHANGED << pipeVars, auxVars, call_args, interpolated >>

SpecMatcher == InitMatcher /\ [][MatcherObserveInterval]_vars

\* C30: the matcher is flagged disjoint exactly when one vessel's last
\* timestamp is before the other's first; when it is not, start is the
\* later of the first timestamps and end the earlier of the last ones,
\* start <= end, both lie in both vessels' time domains, and
\* observe_interval queries both vessels without error; when it is,
\* observe_interval fails with ValueError and queries neither vessel.
C30_CommonInterval ==
    LET m == call_args.matcher
        l1 == call_args.vessel1[1].timestamp
        u1 == Last(call_args.vessel1).timestamp
        l2 == call_args.vessel2[1].timestamp
        u2 == Last(call_args.vessel2).timestamp
    IN  /\ m.disjoint_trajectories <=> (u1 < l2 \/ u2 < l1)
        /\ ~ m.disjoint_trajectories =>
              /\ m.start = << IF l1 >= l2 THEN l1 ELSE l2 >>
              /\ m.end = << IF u1 <= u2 THEN u1 ELSE u2 >>
              /\ m.start[1] <= m.end[1]
              /\ l1 <= m.start[1] /\ m.end[1] <= u1
              /\ l2 <= m.start[1] /\ m.end[1] <= u2
              /\ call_ret # << >> =>
                    /\ call_ret[1].err = None
                    /\ call_ret[1].obs_vessel1 # << >>
                    /\ call_ret[1].obs_vessel2 # << >>
                    /\ call_ret[1].obs_vessel1[1].err = None
                    /\ call_ret[1].obs_vessel2[1].err = None
        /\ (m.disjoint_trajectories /\ call_ret # << >>) =>
              call_ret[1] = [err |-> "ValueError",
                             obs_vessel1 |-> << >>, obs_vessel2 |-> << >>]

\* Two vessels that overlap without either containing the other have been
\* observed over their common interval.
C30_Witness ==
    /\ call_ret # << >>
    /\ call_ret[1].err = None
    /\ call_args.vessel1[1].timestamp < call_args.vessel2[1].timestamp
    /\ Last(call_args.vessel1).timestamp < Last(call_args.vessel2).timestamp
    /\ call_args.matcher.start[1] < call_args.matcher.end[1]
    /\ Len(call_ret[1].obs_vessel1[1].timestamps) > 1

====
